---- MODULE Spec2Model ----
(***************************************************************************)
(* Batch download orchestration of jhgarciawillis/ytdownloader.            *)
(*                                                                         *)
(* Specifications over one set of variables:                                *)
(*   Spec        DownloadProgressTracker (src/ui/progress_tracking.py):    *)
(*               the foreground caller (start_download, add_download_task, *)
(*               stop_event.set(), finalize_download) and the background   *)
(*               threads running _download_worker.                         *)
(*   SpecApp     YouTubeAudioDownloaderApp.run / _perform_download         *)
(*               (src/app.py): the synchronous per-item loop, the tracker  *)
(*               object it constructs and the summary it displays.         *)
(*   SpecBatch   the two per-item loops over download_audio: the run of    *)
(*               SpecApp, and a direct call of                             *)
(*               AudioDownloader.batch_download                            *)
(*               (src/services/audio_downloader.py).                       *)
(*   SpecSummary DownloadProgressTracker.create_download_summary applied   *)
(*               to bounded pairs of lists.                                *)
(*   SpecSanitize, SpecResolve, SpecNames                                  *)
(*               single calls of FileHelper.sanitize_filename,             *)
(*               FileHelper.generate_unique_filename                       *)
(*               (src/utils/file_helpers.py) and                           *)
(*               _generate_custom_titles (src/app.py) on bounded inputs.   *)
(*   SpecBatchAny                                                          *)
(*               batch_download called with any list of names.             *)
(*   SpecPlacement                                                         *)
(*               batch_download with names that collide, in a directory    *)
(*               that may hold files already.                              *)
(*   SpecFair, SpecWorker                                                  *)
(*               the tracker under fair scheduling of its threads: with    *)
(*               every call of Spec, and with start_download and           *)
(*               add_download_task of videos only.                         *)
(***************************************************************************)
EXTENDS Naturals, Integers, Sequences, FiniteSets

\* ---------------------------------------------------------------- bounds
\* Threads start_download may create in one behaviour.
MaxThreads == 2
\* Tasks add_download_task may enqueue in one behaviour (videos and None).
MaxTasks == 3
\* Largest total_videos handed to DownloadProgressTracker.__init__.
MaxTotal == 2
\* Longest list of selected videos of one application run.
MaxVideos == 3
\* Longest list handed to create_download_summary in SpecSummary.
MaxList == 2

\* The None object of Python as a return value or an absent argument.
None == "None"
\* The None object as an entry of download_queue, whose other entries are the
\* video ids 1, 2, ...
QNone == 0

Titles == {"a", "b"}
Threads == 1..MaxThreads

VARIABLES
    \* ---- DownloadProgressTracker (progress_tracking.py:19-25)
    total_videos,          \* self.total_videos
    current_video,         \* self.current_video
    successful_downloads,  \* self.successful_downloads
    failed_downloads,      \* self.failed_downloads
    download_queue,        \* self.download_queue: the items, head first
    unfinished_tasks,      \* queue.Queue.unfinished_tasks (put / task_done / join)
    stop_event,            \* self.stop_event
    download_thread,       \* self.download_thread: 0 is None, else a thread id
    \* ---- the threads start_download created, each running _download_worker
    nthreads,              \* threads created so far
    wpc,                   \* thread -> position in _download_worker
    wvideo,                \* thread -> the video it took from the queue (0: none)
    wbranch,               \* thread -> "succ" | "fail" | "exc": branch of lines 64-73
    wtmp,                  \* thread -> the value it loaded for a pending `+= 1`
    wdying,                \* thread -> an exception is propagating out of the loop
    \* ---- the foreground caller
    fpc,                   \* position in finalize_download
    nput,                  \* videos enqueued so far; video ids are 1, 2, ...
    ntasks,                \* add_download_task calls so far
    log,                   \* outcomes in the order _update_progress displayed them
    \* ---- YouTubeAudioDownloaderApp
    app_pc,                \* position in run / _perform_download
    videos,                \* selected_videos: sequence of VideoInfo
    naming_method,
    custom_prefix,
    download_method,
    output_dir,            \* text of the "Enter download directory path" input
    custom_titles,         \* [none, items]: None, or the list of names
    idx,                   \* position of the for loop of line 196 (1-based)
    attempted,             \* urls download_audio was called for, in call order
    successful_videos,
    failed_videos,
    summary,               \* the dict of create_download_summary, or how it ended
    \* ---- AudioDownloader.batch_download
    downloaded_files,      \* the list batch_download returns
    \* ---- the output directory and the download_audio calls made in it
    entries,               \* names for which os.path.exists is true
    calls,                 \* one record per download_audio / resolve call
    \* ---- a single call of a FileHelper / naming function
    fn_in,                 \* the arguments
    fn_out                 \* what the call returned

trackerVars == <<total_videos, current_video, successful_downloads,
                 failed_downloads, download_queue, unfinished_tasks,
                 stop_event, download_thread>>
workerVars  == <<nthreads, wpc, wvideo, wbranch, wtmp, wdying>>
callerVars  == <<fpc, nput, ntasks, log>>
appVars     == <<app_pc, videos, naming_method, custom_prefix, download_method,
                 output_dir, custom_titles, idx, attempted, successful_videos,
                 failed_videos, summary, downloaded_files,
                 entries, calls, fn_in, fn_out>>
fsVars      == <<entries, calls>>
fnVars      == <<fn_in, fn_out>>
vars == <<trackerVars, workerVars, callerVars, appVars>>

\* ------------------------------------------------------------- helpers
SeqsUpTo(S, n) == UNION {[1..k -> S] : k \in 0..n}

Min(a, b) == IF a <= b THEN a ELSE b

\* ================================================================
\*  DownloadProgressTracker
\* ================================================================

\* __init__ (lines 19-25): the counters at 0, an empty queue, no thread, the
\* stop event clear.
TrackerInit(total) ==
    /\ total_videos = total
    /\ current_video = 0
    /\ successful_downloads = 0
    /\ failed_downloads = 0
    /\ download_queue = <<>>
    /\ unfinished_tasks = 0
    /\ stop_event = FALSE
    /\ download_thread = 0

\* No thread exists until start_download is called.
WorkersInit ==
    /\ nthreads = 0
    /\ wpc = [w \in Threads |-> "none"]
    /\ wvideo = [w \in Threads |-> 0]
    /\ wbranch = [w \in Threads |-> "succ"]
    /\ wtmp = [w \in Threads |-> 0]
    /\ wdying = [w \in Threads |-> FALSE]

CallerInit ==
    /\ fpc = "idle"
    /\ nput = 0
    /\ ntasks = 0
    /\ log = <<>>

\* An empty output directory in which no call was made yet.
FsIdle ==
    /\ entries = {}
    /\ calls = <<>>

\* No single function call is modelled.
FnIdle ==
    /\ fn_in = [none |-> TRUE]
    /\ fn_out = [none |-> TRUE]

\* The application's variables when no application run is modelled.
AppIdle ==
    /\ app_pc = "off"
    /\ videos = <<>>
    /\ naming_method = None
    /\ custom_prefix = None
    /\ download_method = None
    /\ output_dir = ""
    /\ custom_titles = [none |-> TRUE, items |-> <<>>]
    /\ idx = 0
    /\ attempted = <<>>
    /\ successful_videos = <<>>
    /\ failed_videos = <<>>
    /\ summary = [status |-> "unset"]
    /\ downloaded_files = <<>>
    /\ FsIdle
    /\ FnIdle

\* The foreground is a single flow: it issues no other call while it is blocked
\* inside finalize_download.
CallerFree == fpc \in {"idle", "done"}

\* start_download (lines 39-43): always a new Thread, stored over the previous
\* reference, and started. There is no check for a thread already running.
StartDownload ==
    /\ CallerFree
    /\ nthreads < MaxThreads
    /\ nthreads' = nthreads + 1
    /\ download_thread' = nthreads + 1
    /\ wpc' = [wpc EXCEPT ![nthreads + 1] = "check"]
    /\ UNCHANGED <<total_videos, current_video, successful_downloads,
                   failed_downloads, download_queue, unfinished_tasks,
                   stop_event, wvideo, wbranch, wtmp, wdying,
                   callerVars, appVars>>

\* queue.Queue.put: the item at the tail, one more unfinished task.
QueuePut(q, item) == Append(q, item)

\* add_download_task (line 126) with a video: videos are numbered in the order
\* they are enqueued.
AddDownloadTask ==
    /\ CallerFree
    /\ ntasks < MaxTasks
    /\ download_queue' = QueuePut(download_queue, nput + 1)
    /\ unfinished_tasks' = unfinished_tasks + 1
    /\ nput' = nput + 1
    /\ ntasks' = ntasks + 1
    /\ UNCHANGED <<total_videos, current_video, successful_downloads,
                   failed_downloads, stop_event, download_thread,
                   workerVars, fpc, log, appVars>>

\* add_download_task (line 126) with None, the sentinel line 57 tests for.
AddSentinel ==
    /\ CallerFree
    /\ ntasks < MaxTasks
    /\ download_queue' = QueuePut(download_queue, QNone)
    /\ unfinished_tasks' = unfinished_tasks + 1
    /\ ntasks' = ntasks + 1
    /\ UNCHANGED <<total_videos, current_video, successful_downloads,
                   failed_downloads, stop_event, download_thread,
                   workerVars, fpc, nput, log, appVars>>

\* The external stop signal: the caller sets the public stop_event (line 25).
SignalStop ==
    /\ CallerFree
    /\ ~stop_event
    /\ stop_event' = TRUE
    /\ UNCHANGED <<total_videos, current_video, successful_downloads,
                   failed_downloads, download_queue, unfinished_tasks,
                   download_thread, workerVars, callerVars, appVars>>

\* ---------------------------------------------------------------- worker
\* _download_worker (lines 52-81), one step per shared access. Positions:
\*   "check"     line 53, the while condition
\*   "get"       line 55, blocked in download_queue.get(timeout=1)
\*   "call"      line 62, inside download_func(video): the download in flight
\*   "cnt_ld"    lines 65/68/72, `+= 1` of the outcome counter: the load
\*   "cnt_st"    the store of that `+= 1`
\*   "cur_ld"    line 97, `self.current_video += 1`: the load
\*   "cur_st"    the store of line 97, then lines 98-117
\*   "task_done" line 76
\*   "exit"      line 81, the outer finally
\*   "dead"      the thread has ended
\* The two `+= 1` are a load and a store with no lock around them: threads
\* interleave between the two.

\* Line 53: leave the loop when the stop event is set, else go on to get().
WorkerCheck(w) ==
    /\ wpc[w] = "check"
    /\ wpc' = [wpc EXCEPT ![w] = IF stop_event THEN "exit" ELSE "get"]
    /\ UNCHANGED <<trackerVars, nthreads, wvideo, wbranch, wtmp, wdying,
                   callerVars, appVars>>

\* Lines 55-58: get() returns the head of the queue. None breaks out of the loop
\* (before the inner try, so without task_done); a video goes to download_func.
\* The stop event is not read here.
WorkerGet(w) ==
    /\ wpc[w] = "get"
    /\ download_queue # <<>>
    /\ download_queue' = Tail(download_queue)
    /\ IF Head(download_queue) = QNone
         THEN /\ wpc' = [wpc EXCEPT ![w] = "exit"]
              /\ UNCHANGED wvideo
         ELSE /\ wpc' = [wpc EXCEPT ![w] = "call"]
              /\ wvideo' = [wvideo EXCEPT ![w] = Head(download_queue)]
    /\ UNCHANGED <<total_videos, current_video, successful_downloads,
                   failed_downloads, unfinished_tasks, stop_event,
                   download_thread, nthreads, wbranch, wtmp, wdying,
                   callerVars, appVars>>

\* Lines 55, 78-79: the queue stayed empty for the second get() waits; queue.Empty
\* ends the loop.
WorkerTimeout(w) ==
    /\ wpc[w] = "get"
    /\ download_queue = <<>>
    /\ wpc' = [wpc EXCEPT ![w] = "exit"]
    /\ UNCHANGED <<trackerVars, nthreads, wvideo, wbranch, wtmp, wdying,
                   callerVars, appVars>>

\* Lines 62-73: which branch the result of download_func selects.
BranchOf(result) ==
    CASE result = "truthy" -> "succ"
      [] result = "falsy"  -> "fail"
      [] OTHER             -> "exc"

\* Line 62: download_func returns a truthy value, a falsy one, or raises.
WorkerDownloadReturns(w) ==
    /\ wpc[w] = "call"
    /\ \E result \in {"truthy", "falsy", "raises"} :
          wbranch' = [wbranch EXCEPT ![w] = BranchOf(result)]
    /\ wpc' = [wpc EXCEPT ![w] = "cnt_ld"]
    /\ UNCHANGED <<trackerVars, nthreads, wvideo, wtmp, wdying,
                   callerVars, appVars>>

\* Lines 65, 68, 72: the load of `self.<counter> += 1`.
WorkerCounterLoad(w) ==
    /\ wpc[w] = "cnt_ld"
    /\ wtmp' = [wtmp EXCEPT ![w] = IF wbranch[w] = "succ"
                                     THEN successful_downloads
                                     ELSE failed_downloads]
    /\ wpc' = [wpc EXCEPT ![w] = "cnt_st"]
    /\ UNCHANGED <<trackerVars, nthreads, wvideo, wbranch, wdying,
                   callerVars, appVars>>

\* Lines 65, 68, 72: the store of `self.<counter> += 1`.
WorkerCounterStore(w) ==
    /\ wpc[w] = "cnt_st"
    /\ IF wbranch[w] = "succ"
         THEN /\ successful_downloads' = wtmp[w] + 1
              /\ UNCHANGED failed_downloads
         ELSE /\ failed_downloads' = wtmp[w] + 1
              /\ UNCHANGED successful_downloads
    /\ wtmp' = [wtmp EXCEPT ![w] = 0]
    /\ wpc' = [wpc EXCEPT ![w] = "cur_ld"]
    /\ UNCHANGED <<total_videos, current_video, download_queue,
                   unfinished_tasks, stop_event, download_thread, nthreads,
                   wvideo, wbranch, wdying, callerVars, appVars>>

\* Line 97: the load of `self.current_video += 1`.
WorkerCurrentLoad(w) ==
    /\ wpc[w] = "cur_ld"
    /\ wtmp' = [wtmp EXCEPT ![w] = current_video]
    /\ wpc' = [wpc EXCEPT ![w] = "cur_st"]
    /\ UNCHANGED <<trackerVars, nthreads, wvideo, wbranch, wdying,
                   callerVars, appVars>>

\* Line 98: `self.current_video / self.total_videos` raises ZeroDivisionError
\* when the tracker was built with total_videos = 0. The Streamlit calls of lines
\* 101-117 are taken not to raise.
UpdateProgressRaises(total) == total = 0

\* Lines 97-117, from the store of line 97 on. When line 98 raises inside the try
\* (lines 66, 69) the except clause of line 71 runs next; when it raises inside
\* the except clause (line 73) the exception leaves the loop through the finally
\* of line 75. Otherwise the status is displayed.
WorkerCurrentStore(w) ==
    /\ wpc[w] = "cur_st"
    /\ current_video' = wtmp[w] + 1
    /\ wtmp' = [wtmp EXCEPT ![w] = 0]
    /\ IF UpdateProgressRaises(total_videos)
         THEN /\ IF wbranch[w] = "exc"
                   THEN /\ wdying' = [wdying EXCEPT ![w] = TRUE]
                        /\ wpc' = [wpc EXCEPT ![w] = "task_done"]
                        /\ UNCHANGED wbranch
                   ELSE /\ wbranch' = [wbranch EXCEPT ![w] = "exc"]
                        /\ wpc' = [wpc EXCEPT ![w] = "cnt_ld"]
                        /\ UNCHANGED wdying
              /\ UNCHANGED log
         ELSE /\ log' = Append(log, [video |-> wvideo[w],
                                     success |-> wbranch[w] = "succ"])
              /\ wpc' = [wpc EXCEPT ![w] = "task_done"]
              /\ UNCHANGED <<wbranch, wdying>>
    /\ UNCHANGED <<total_videos, successful_downloads, failed_downloads,
                   download_queue, unfinished_tasks, stop_event,
                   download_thread, nthreads, wvideo, fpc, nput, ntasks,
                   appVars>>

\* Line 76: task_done for the video taken, then back to line 53, or on to the
\* outer finally when an exception is propagating. The locals of the iteration
\* (video, the branch) are dead from here on and are reset.
WorkerTaskDone(w) ==
    /\ wpc[w] = "task_done"
    /\ unfinished_tasks' = unfinished_tasks - 1
    /\ wvideo' = [wvideo EXCEPT ![w] = 0]
    /\ wbranch' = [wbranch EXCEPT ![w] = "succ"]
    /\ wpc' = [wpc EXCEPT ![w] = IF wdying[w] THEN "exit" ELSE "check"]
    /\ UNCHANGED <<total_videos, current_video, successful_downloads,
                   failed_downloads, download_queue, stop_event,
                   download_thread, nthreads, wtmp, wdying,
                   callerVars, appVars>>

\* Line 81: the outer finally sets the stop event; the thread ends.
WorkerExit(w) ==
    /\ wpc[w] = "exit"
    /\ stop_event' = TRUE
    /\ wpc' = [wpc EXCEPT ![w] = "dead"]
    /\ UNCHANGED <<total_videos, current_video, successful_downloads,
                   failed_downloads, download_queue, unfinished_tasks,
                   download_thread, nthreads, wvideo, wbranch, wtmp, wdying,
                   callerVars, appVars>>

\* -------------------------------------------------------- finalize_download
\* The caller enters finalize_download and blocks in download_queue.join().
FinalizeBegin ==
    /\ fpc = "idle"
    /\ fpc' = "queue_join"
    /\ UNCHANGED <<trackerVars, workerVars, nput, ntasks, log, appVars>>

\* Lines 133-134: join() returns once every put has had its task_done; the stop
\* event is set.
FinalizeQueueJoined ==
    /\ fpc = "queue_join"
    /\ unfinished_tasks = 0
    /\ stop_event' = TRUE
    /\ fpc' = "thread_join"
    /\ UNCHANGED <<total_videos, current_video, successful_downloads,
                   failed_downloads, download_queue, unfinished_tasks,
                   download_thread, workerVars, nput, ntasks, log, appVars>>

\* Lines 136-143: join the thread last started, if any, and show the metrics.
FinalizeThreadJoined ==
    /\ fpc = "thread_join"
    /\ IF download_thread = 0 THEN TRUE ELSE wpc[download_thread] = "dead"
    /\ fpc' = "done"
    /\ UNCHANGED <<trackerVars, workerVars, nput, ntasks, log, appVars>>

Init ==
    /\ \E total \in 0..MaxTotal : TrackerInit(total)
    /\ WorkersInit
    /\ CallerInit
    /\ AppIdle

Next ==
    \/ StartDownload
    \/ AddDownloadTask
    \/ AddSentinel
    \/ SignalStop
    \/ FinalizeBegin
    \/ FinalizeQueueJoined
    \/ FinalizeThreadJoined
    \/ \E w \in Threads :
          \/ WorkerCheck(w)
          \/ WorkerGet(w)
          \/ WorkerTimeout(w)
          \/ WorkerDownloadReturns(w)
          \/ WorkerCounterLoad(w)
          \/ WorkerCounterStore(w)
          \/ WorkerCurrentLoad(w)
          \/ WorkerCurrentStore(w)
          \/ WorkerTaskDone(w)
          \/ WorkerExit(w)

Spec == Init /\ [][Next]_vars

\* ---------------------------------------------------------- scheduling
\* Any step of the thread w inside _download_worker.
WorkerStep(w) ==
    \/ WorkerCheck(w)
    \/ WorkerGet(w)
    \/ WorkerTimeout(w)
    \/ WorkerDownloadReturns(w)
    \/ WorkerCounterLoad(w)
    \/ WorkerCounterStore(w)
    \/ WorkerCurrentLoad(w)
    \/ WorkerCurrentStore(w)
    \/ WorkerTaskDone(w)
    \/ WorkerExit(w)

\* What the interpreter and the library guarantee: a started thread that can
\* take a step takes one (get(timeout=1) returns an item or raises queue.Empty
\* after a second, download_func returns or raises), and a join whose
\* condition holds returns. Nothing obliges the caller to make another call.
Fairness ==
    /\ \A w \in Threads : WF_vars(WorkerStep(w))
    /\ WF_vars(FinalizeQueueJoined)
    /\ WF_vars(FinalizeThreadJoined)

\* The tracker with every call of Spec, under that scheduling.
SpecFair == Init /\ [][Next]_vars /\ Fairness

\* The tracker when the caller only starts the worker and enqueues videos: no
\* stop signal, no None, no finalize_download.
NextWorker ==
    \/ StartDownload
    \/ AddDownloadTask
    \/ \E w \in Threads : WorkerStep(w)

SpecWorker == Init /\ [][NextWorker]_vars /\ Fairness

\* ================================================================
\*  create_download_summary (progress_tracking.py:162-184)
\* ================================================================

\* [v.title for v in vs], lines 182-183.
TitlesOf(vs) == [i \in DOMAIN vs |-> vs[i].title]

\* create_download_summary with the rate of line 181 computed by floor division
\* (len(s) // total * 100).
CreateDownloadSummary_FloorRate(s, f) ==
    IF Len(s) + Len(f) = 0
      THEN [status |-> "ZeroDivisionError"]
      ELSE [status |-> "ok",
            total_videos |-> Len(s) + Len(f),
            successful_count |-> Len(s),
            failed_count |-> Len(f),
            success_rate |-> [num |-> (Len(s) \div (Len(s) + Len(f))) * 100,
                              den |-> 1],
            successful_videos |-> TitlesOf(s),
            failed_videos |-> TitlesOf(f)]

\* The dict of lines 177-184. The rate len(s) / (len(s) + len(f)) * 100 is kept
\* as the exact fraction num/den. Python evaluates the division of line 181
\* while building the dict: with both lists empty it raises ZeroDivisionError
\* and no dict is returned.
CreateDownloadSummary(s, f) ==
    IF Len(s) + Len(f) = 0
      THEN [status |-> "ZeroDivisionError"]
      ELSE [status |-> "ok",
            total_videos |-> Len(s) + Len(f),
            successful_count |-> Len(s),
            failed_count |-> Len(f),
            success_rate |-> [num |-> Len(s) * 100, den |-> Len(s) + Len(f)],
            successful_videos |-> TitlesOf(s),
            failed_videos |-> TitlesOf(f)]

\* ================================================================
\*  FileHelper (utils/file_helpers.py)
\* ================================================================

\* A text is a sequence of characters and a character is named by a string:
\* "TAB" is U+0009, "e_acute" U+00E9, "ACUTE" the combining accent U+0301 and
\* "CJK" the ideograph U+4E2D; every other name is the ASCII character itself.
Letters == {"a", "b", "c", "d", "e", "f", "i", "k", "l", "m", "n", "o", "p",
            "r", "t", "u", "v", "w", "x"}
Digits == {"0", "1", "2", "3", "4", "5", "6", "7", "8", "9"}
\* \w of the pattern of line 33, on ASCII text.
WordChars == Letters \cup Digits \cup {"_"}
\* What encode('ascii', ...) of line 30 can encode.
AsciiChars == WordChars \cup {"-", ".", " ", "/", "?", "TAB"}
\* \s of the pattern of line 36.
IsSpace(c) == c \in {" ", "TAB"}

\* unicodedata.normalize('NFKD', ...), line 27: an accented letter becomes the
\* letter followed by the combining accent; the other characters stay.
NfkdChar(c) == IF c = "e_acute" THEN <<"e", "ACUTE">> ELSE <<c>>

RECURSIVE Nfkd(_)
Nfkd(text) ==
    IF text = <<>> THEN <<>> ELSE NfkdChar(Head(text)) \o Nfkd(Tail(text))

\* encode('ascii', 'ignore').decode('ascii'), line 30: what is not ASCII is
\* left out.
AsciiIgnore(text) == SelectSeq(text, LAMBDA c : c \in AsciiChars)

\* re.sub(r'[^\w\-_\. ]+', '_', ...): line 33 with a pattern that takes a whole run.
RECURSIVE ReplaceDisallowed_Runs(_)
ReplaceDisallowed_Runs(text) ==
    IF text = <<>> THEN <<>>
    ELSE IF Head(text) \in WordChars \cup {"-", ".", " "}
           THEN <<Head(text)>> \o ReplaceDisallowed_Runs(Tail(text))
           ELSE IF Tail(text) # <<>>
                   /\ Head(Tail(text)) \notin WordChars \cup {"-", ".", " "}
                  THEN ReplaceDisallowed_Runs(Tail(text))
                  ELSE <<"_">> \o ReplaceDisallowed_Runs(Tail(text))

\* re.sub(r'[^\w\-_\. ]', '_', ...), line 33: the pattern matches one character,
\* so each character outside the class becomes an underscore of its own.
ReplaceDisallowed(text) ==
    [i \in DOMAIN text |->
        IF text[i] \in WordChars \cup {"-", ".", " "} THEN text[i] ELSE "_"]

RECURSIVE DropSpaces(_)
DropSpaces(text) ==
    IF text # <<>> /\ IsSpace(Head(text)) THEN DropSpaces(Tail(text)) ELSE text

\* re.sub(r'\s+', ' ', ...), line 36: a run of whitespace becomes one space.
RECURSIVE CollapseSpaces(_)
CollapseSpaces(text) ==
    IF text = <<>> THEN <<>>
    ELSE IF IsSpace(Head(text))
           THEN <<" ">> \o CollapseSpaces(DropSpaces(Tail(text)))
           ELSE <<Head(text)>> \o CollapseSpaces(Tail(text))

RECURSIVE LStrip(_, _)
LStrip(text, cs) ==
    IF text # <<>> /\ Head(text) \in cs THEN LStrip(Tail(text), cs) ELSE text

RECURSIVE RStrip(_, _)
RStrip(text, cs) ==
    IF text # <<>> /\ text[Len(text)] \in cs
      THEN RStrip(SubSeq(text, 1, Len(text) - 1), cs)
      ELSE text

\* str.strip('. '), line 39.
Strip(text, cs) == RStrip(LStrip(text, cs), cs)

\* The slice [:n], line 39; a negative n counts from the end.
Truncate(text, n) ==
    IF n >= 0 THEN SubSeq(text, 1, Min(Len(text), n))
    ELSE IF Len(text) + n > 0 THEN SubSeq(text, 1, Len(text) + n) ELSE <<>>

\* The literal of line 42.
UnnamedFile == <<"u", "n", "n", "a", "m", "e", "d", "_", "f", "i", "l", "e">>
\* The default of the parameter max_length, line 15.
DefaultMaxLength == 255

\* sanitize_filename without line 42: the transformed text as it is.
SanitizeFilename_NoFallback(filename, max_length) ==
    Truncate(Strip(CollapseSpaces(ReplaceDisallowed(AsciiIgnore(Nfkd(filename)))),
                   {".", " "}),
             max_length)

\* sanitize_filename (lines 27-42).
SanitizeFilename(filename, max_length) ==
    LET normalized == Nfkd(filename)
        ascii      == AsciiIgnore(normalized)
        replaced   == ReplaceDisallowed(ascii)
        collapsed  == CollapseSpaces(replaced)
        cut        == Truncate(Strip(collapsed, {".", " "}), max_length)
    IN  IF cut # <<>> THEN cut ELSE UnnamedFile

\* f'.{preferredcodec}' (audio_downloader.py:99) for two of the formats of
\* config.py:47.
DotMp3 == <<".", "m", "p", "3">>
DotWav == <<".", "w", "a", "v">>
Extensions == {DotMp3, DotWav}

\* str(counter) inside the f-string of line 72: the decimal digits.
DigitOf(d) ==
    CASE d = 0 -> "0" [] d = 1 -> "1" [] d = 2 -> "2" [] d = 3 -> "3"
      [] d = 4 -> "4" [] d = 5 -> "5" [] d = 6 -> "6" [] d = 7 -> "7"
      [] d = 8 -> "8" [] d = 9 -> "9"

RECURSIVE Str(_)
Str(n) == IF n < 10 THEN <<DigitOf(n)>> ELSE Str(n \div 10) \o <<DigitOf(n % 10)>>

\* f"{clean_filename}{counter}{extension}": lines 70-73 without the underscore.
Suffixed_NoSeparator(clean, counter, extension) ==
    clean \o Str(counter) \o extension

\* f"{clean_filename}_{counter}{extension}", lines 70-73. A path is the name of
\* the entry in base_path, the one directory of the model.
Suffixed(clean, counter, extension) ==
    clean \o <<"_">> \o Str(counter) \o extension

\* The while loop with counter += 2 at line 74.
RECURSIVE UniqueLoop_StepTwo(_, _, _, _, _, _)
UniqueLoop_StepTwo(exists, clean, extension, filepath, counter, checks) ==
    IF filepath \in exists
      THEN UniqueLoop_StepTwo(exists, clean, extension,
                              Suffixed(clean, counter, extension), counter + 2,
                              checks + 1)
      ELSE [filepath |-> filepath, checks |-> checks + 1]

\* The while loop of lines 69-74: exists is the set of names for which
\* os.path.exists is true, checks the calls of os.path.exists made before
\* this one. The result is the path returned at line 76 and the number of
\* calls of os.path.exists.
RECURSIVE UniqueLoop(_, _, _, _, _, _)
UniqueLoop(exists, clean, extension, filepath, counter, checks) ==
    IF filepath \in exists
      THEN UniqueLoop(exists, clean, extension,
                      Suffixed(clean, counter, extension), counter + 1,
                      checks + 1)
      ELSE [filepath |-> filepath, checks |-> checks + 1]

\* generate_unique_filename with counter = 2 at line 68.
GenerateUniqueFilename_CounterFromTwo(exists, filename, extension) ==
    LET clean == SanitizeFilename(filename, DefaultMaxLength)
    IN  UniqueLoop(exists, clean, extension, clean \o extension, 2, 0).filepath

\* generate_unique_filename without the loop of lines 69-74.
GenerateUniqueFilename_NoLoop(exists, filename, extension) ==
    SanitizeFilename(filename, DefaultMaxLength) \o extension

\* generate_unique_filename (lines 62-76): the name is sanitized again, the
\* first candidate has no suffix, the counter starts at 1.
GenerateUniqueFilename(exists, filename, extension) ==
    LET clean == SanitizeFilename(filename, DefaultMaxLength)
    IN  UniqueLoop(exists, clean, extension, clean \o extension, 1, 0).filepath

\* The calls of os.path.exists (line 69) one call of generate_unique_filename
\* makes.
ExistenceChecks(exists, filename, extension) ==
    LET clean == SanitizeFilename(filename, DefaultMaxLength)
    IN  UniqueLoop(exists, clean, extension, clean \o extension, 1, 0).checks

\* ================================================================
\*  YouTubeAudioDownloaderApp (app.py)
\* ================================================================

\* config.py:22-26, the options of the st.radio of download_options.py:59-66.
NAMING_OPTIONS == {"Original Video Titles", "Custom Prefix", "Numbered Sequence"}
\* config.py:29-33, the options of the st.radio of download_options.py:37-43.
DOWNLOAD_METHODS == {"Temporary Directory", "Download as ZIP",
                     "Custom Download Folder"}

\* A file name: a title verbatim (n = 0), or f"{text}_{n}".
TitleName(t) == [kind |-> "title", text |-> t, n |-> 0]
IndexedName(prefix, i) == [kind |-> "indexed", text |-> prefix, n |-> i]

\* The characters of the texts of the model: the literals of lines 145 and
\* 150, the prefix typed in the model's runs, and the one-character titles.
Chars(str) ==
    CASE str = "audio" -> <<"a", "u", "d", "i", "o">>
      [] str = "track" -> <<"t", "r", "a", "c", "k">>
      [] str = "mix" -> <<"m", "i", "x">>
      [] OTHER -> <<str>>

\* The text of a name: video.title (line 143), or the f-strings
\* f"{prefix}_{i+1}" and f"track_{i+1}" (lines 147 and 150).
RenderName(name) ==
    IF name.kind = "title" THEN Chars(name.text)
    ELSE Chars(name.text) \o <<"_">> \o Str(name.n)

\* _generate_custom_titles numbering with i instead of i+1.
GenerateCustomTitles_ZeroBased(vs, method, prefix) ==
    CASE method = "Original Video Titles" ->
           [none |-> FALSE, items |-> [i \in DOMAIN vs |-> TitleName(vs[i].title)]]
      [] method = "Custom Prefix" ->
           [none |-> FALSE,
            items |-> [i \in DOMAIN vs |->
                         IndexedName(IF prefix \in {None, ""} THEN "audio"
                                     ELSE prefix, i - 1)]]
      [] method = "Numbered Sequence" ->
           [none |-> FALSE,
            items |-> [i \in DOMAIN vs |-> IndexedName("track", i - 1)]]
      [] OTHER -> [none |-> TRUE, items |-> <<>>]

\* _generate_custom_titles (lines 142-150). No branch matches another naming
\* method: the function falls off its end and returns None.
GenerateCustomTitles(vs, method, prefix) ==
    CASE method = "Original Video Titles" ->
           [none |-> FALSE, items |-> [i \in DOMAIN vs |-> TitleName(vs[i].title)]]
      [] method = "Custom Prefix" ->
           [none |-> FALSE,
            items |-> [i \in DOMAIN vs |->
                         IndexedName(IF prefix \in {None, ""} THEN "audio"
                                     ELSE prefix, i)]]
      [] method = "Numbered Sequence" ->
           [none |-> FALSE, items |-> [i \in DOMAIN vs |-> IndexedName("track", i)]]
      [] OTHER -> [none |-> TRUE, items |-> <<>>]

\* What the environment does during one download_audio call:
\*   mkdir     "ok"      os.makedirs made the directory, or it was there
\*             "oserror" os.makedirs raised OSError or PermissionError
\*             "raises"  os.makedirs raised another exception
\*   resolve   "ok"      lines 92-100 ran to their end
\*             "raises"  sanitize_filename or generate_unique_filename raised
\*   transcode "ok"         ydl.download returned and wrote the file at filepath
\*             "nofile"     it returned and wrote no file at filepath
\*             "error"      it raised and left no file at filepath
\*             "error_file" it raised after writing a file at filepath
\* "none" stands for a step that was not reached.
EnvOutcomes ==
    {e \in [mkdir : {"ok", "oserror", "raises"},
            resolve : {"ok", "raises", "none"},
            transcode : {"ok", "nofile", "error", "error_file", "none"}] :
        /\ (e.mkdir = "raises") <=> (e.resolve = "none")
        /\ (e.resolve # "ok") <=> (e.transcode = "none")}

\* create_directory (file_helpers.py:89-94): True, False after an OSError, or
\* the exception it does not catch.
CreateDirectory(mkdir) ==
    [raised |-> mkdir = "raises", value |-> mkdir = "ok"]

\* filename = custom_title or video.title, line 92: an empty name is falsy.
FileName(video, custom_title) ==
    IF RenderName(custom_title) # <<>> THEN RenderName(custom_title)
    ELSE Chars(video.title)

\* Lines 117-119, reached from a raise before line 107: the exception is
\* printed and None is returned.
ExceptHandler(filepath, exists) ==
    [value |-> None, filepath |-> filepath, invoked |-> FALSE,
     exists |-> exists]

\* Lines 110-115 without the test: the path is returned whenever ydl.download
\* returned.
AfterTranscode_NoCheck(filepath, exists) == "filepath"

\* Lines 110-115: the path when os.path.exists(filepath), else None.
AfterTranscode(filepath, exists) ==
    IF filepath \in exists THEN "filepath" ELSE None

\* download_audio (audio_downloader.py:82-119) called while the names in
\* exists are in the output directory. Line 89 drops what create_directory
\* returns. The result says what was returned ("filepath" for the path, None),
\* the path that was resolved, whether ydl.download was called, and the
\* directory afterwards.
DownloadAudio(exists, filename, env) ==
    LET dir       == CreateDirectory(env.mkdir)
        sanitized == SanitizeFilename(filename, DefaultMaxLength)
        filepath  == GenerateUniqueFilename(exists, sanitized, DotMp3)
        after     == IF env.transcode \in {"ok", "error_file"}
                       THEN exists \cup {filepath} ELSE exists
    IN  IF dir.raised THEN ExceptHandler(<<>>, exists)
        ELSE IF env.resolve = "raises" THEN ExceptHandler(<<>>, exists)
        ELSE IF env.transcode \in {"error", "error_file"}
               THEN [value |-> None, filepath |-> filepath, invoked |-> TRUE,
                     exists |-> after]
               ELSE [value |-> AfterTranscode(filepath, after),
                     filepath |-> filepath, invoked |-> TRUE, exists |-> after]

\* Lines 203-209 without the else branch of line 205: a video whose download
\* returned None is put in neither list.
RecordOutcome_DropFailed(lists, video, result) ==
    IF result # "raised" /\ result # None
      THEN [s |-> Append(lists.s, video), f |-> lists.f]
      ELSE IF result = "raised"
             THEN [s |-> lists.s, f |-> Append(lists.f, video)]
             ELSE lists

\* Lines 203-209: the video goes to exactly one of the two lists. "raised" is
\* an exception out of download_audio (line 207).
RecordOutcome(lists, video, result) ==
    IF result # "raised" /\ result # None
      THEN [s |-> Append(lists.s, video), f |-> lists.f]
      ELSE [s |-> lists.s, f |-> Append(lists.f, video)]

\* Line 196 with a loop that a failed download leaves (a break after line 206).
AfterItem_BreakOnFailure(i, result) ==
    IF result = None THEN i + MaxVideos + 1 ELSE i + 1

\* Line 196: the for loop goes on to the next pair whatever the result was.
AfterItem(i, result) == i + 1

\* zip(videos, custom_titles), line 196: as many pairs as the shorter list has.
ZipLen(vs, names) == Min(Len(vs), Len(names))

\* run, lines 78-94: a non-empty selection, the options of the three widgets,
\* then the names. The prefix input exists only for "Custom Prefix"
\* (download_options.py:68-73).
AppGenerateTitles ==
    /\ app_pc = "run"
    /\ custom_titles' = GenerateCustomTitles(videos, naming_method, custom_prefix)
    /\ app_pc' = "confirm"
    /\ UNCHANGED <<trackerVars, workerVars, callerVars, fsVars, fnVars,
                   downloaded_files,
                   videos, naming_method, custom_prefix, download_method,
                   output_dir, idx, attempted, successful_videos,
                   failed_videos, summary>>

\* run, line 97: the confirm button was not pressed in this script run.
AppNotConfirmed ==
    /\ app_pc = "confirm"
    /\ app_pc' = "not_confirmed"
    /\ UNCHANGED <<trackerVars, workerVars, callerVars, fsVars, fnVars,
                   downloaded_files,
                   videos, naming_method, custom_prefix, download_method,
                   output_dir, custom_titles, idx, attempted,
                   successful_videos, failed_videos, summary>>

\* _perform_download, lines 171-175: "Custom Download Folder" with an empty
\* directory input shows an error and returns before any download.
AppNoDirectory ==
    /\ app_pc = "confirm"
    /\ download_method = "Custom Download Folder"
    /\ output_dir' = ""
    /\ app_pc' = "no_dir"
    /\ UNCHANGED <<trackerVars, workerVars, callerVars, fsVars, fnVars,
                   downloaded_files,
                   videos, naming_method, custom_prefix, download_method,
                   custom_titles, idx, attempted, successful_videos,
                   failed_videos, summary>>

\* _perform_download, lines 171-194: the output directory, the downloader, the
\* tracker DownloadProgressTracker(len(videos)) and the two empty lists.
AppPerformBegin ==
    /\ app_pc = "confirm"
    /\ output_dir' = IF download_method = "Custom Download Folder" THEN "dir"
                     ELSE "tmp"
    /\ total_videos' = Len(videos)
    /\ current_video' = 0
    /\ successful_downloads' = 0
    /\ failed_downloads' = 0
    /\ download_queue' = <<>>
    /\ unfinished_tasks' = 0
    /\ stop_event' = FALSE
    /\ download_thread' = 0
    /\ successful_videos' = <<>>
    /\ failed_videos' = <<>>
    /\ idx' = 1
    /\ app_pc' = "loop"
    /\ UNCHANGED <<workerVars, callerVars, fsVars, fnVars,
                   downloaded_files, videos,
                   naming_method, custom_prefix, download_method,
                   custom_titles, attempted, summary>>

\* _perform_download, lines 196-209: one iteration. Nothing here touches the
\* tracker built at line 190.
AppDownloadItem ==
    /\ app_pc = "loop"
    /\ ~custom_titles.none
    /\ idx <= ZipLen(videos, custom_titles.items)
    /\ \E env \in EnvOutcomes :
          LET filename == FileName(videos[idx], custom_titles.items[idx])
              ret      == DownloadAudio(entries, filename, env)
              lists    == RecordOutcome([s |-> successful_videos,
                                         f |-> failed_videos],
                                        videos[idx], ret.value)
          IN  /\ successful_videos' = lists.s
              /\ failed_videos' = lists.f
              /\ idx' = AfterItem(idx, ret.value)
              /\ entries' = ret.exists
              /\ fn_in' = [url |-> videos[idx].url, filename |-> filename,
                           exists |-> entries, env |-> env]
              /\ fn_out' = ret
    /\ attempted' = Append(attempted, videos[idx].url)
    /\ UNCHANGED <<trackerVars, workerVars, callerVars, calls,
                   downloaded_files, app_pc, videos, naming_method,
                   custom_prefix, download_method, output_dir, custom_titles,
                   summary>>

\* _perform_download, lines 212-222: the summary of the two lists, displayed;
\* an exception out of create_download_summary ends the script run.
AppSummarize ==
    /\ app_pc = "loop"
    /\ ~custom_titles.none
    /\ idx > ZipLen(videos, custom_titles.items)
    /\ summary' = CreateDownloadSummary(successful_videos, failed_videos)
    /\ app_pc' = IF summary'.status = "ok" THEN "done" ELSE "crashed"
    /\ UNCHANGED <<trackerVars, workerVars, callerVars, fsVars, fnVars,
                   downloaded_files,
                   videos, naming_method, custom_prefix, download_method,
                   output_dir, custom_titles, idx, attempted,
                   successful_videos, failed_videos>>

\* The videos a run can have selected: 1..MaxVideos of them (run returns at line
\* 80 on an empty selection), told apart by their urls.
Selections ==
    UNION {[1..k -> [url : 1..MaxVideos, title : Titles]] : k \in 1..MaxVideos}

\* What the output directory holds when a run begins: nothing, or a file an
\* earlier run left (TEMP_DOWNLOAD_DIR is not emptied between runs).
InitialDirectories == {{}, {<<"a">> \o DotMp3}}

InitApp ==
    /\ TrackerInit(0)          \* no tracker yet: line 190 builds it
    /\ WorkersInit
    /\ CallerInit
    /\ app_pc = "run"
    /\ videos \in {vs \in Selections : \A i \in DOMAIN vs : vs[i].url = i}
    /\ naming_method \in NAMING_OPTIONS
    /\ custom_prefix \in (IF naming_method = "Custom Prefix" THEN {"", "mix"}
                          ELSE {None})
    /\ download_method \in DOWNLOAD_METHODS
    /\ output_dir = ""
    /\ custom_titles = [none |-> TRUE, items |-> <<>>]
    /\ idx = 0
    /\ attempted = <<>>
    /\ successful_videos = <<>>
    /\ failed_videos = <<>>
    /\ summary = [status |-> "unset"]
    /\ downloaded_files = <<>>
    /\ entries \in InitialDirectories
    /\ calls = <<>>
    /\ FnIdle

NextApp ==
    \/ AppGenerateTitles
    \/ AppNotConfirmed
    \/ AppNoDirectory
    \/ AppPerformBegin
    \/ AppDownloadItem
    \/ AppSummarize

SpecApp == InitApp /\ [][NextApp]_vars

\* ================================================================
\*  AudioDownloader.batch_download (audio_downloader.py:121-156)
\* ================================================================

\* Lines 139-143: the videos' own titles when custom_titles is None or empty,
\* and never more titles than videos.
BatchTitles(vs, names) ==
    LET given == IF names.none \/ names.items = <<>>
                   THEN [i \in DOMAIN vs |-> TitleName(vs[i].title)]
                   ELSE names.items
    IN  SubSeq(given, 1, Min(Len(given), Len(vs)))

\* What a download_audio call handed back to its caller: None, or the path.
ReturnedPath(ret) == [none |-> ret.value = None, path |-> ret.filepath]

\* Lines 153-154: only a truthy path is kept.
KeepDownloaded(files, filepath) ==
    IF ~filepath.none THEN Append(files, filepath.path) ELSE files

\* Lines 139-145, up to the for loop.
BatchBegin ==
    /\ app_pc = "batch_call"
    /\ custom_titles' = [none |-> FALSE, items |-> BatchTitles(videos, custom_titles)]
    /\ downloaded_files' = <<>>
    /\ idx' = 1
    /\ app_pc' = "batch_loop"
    /\ UNCHANGED <<trackerVars, workerVars, callerVars, fsVars, fnVars,
                   videos, naming_method,
                   custom_prefix, download_method, output_dir, attempted,
                   successful_videos, failed_videos, summary>>

\* Lines 146-154: one iteration.
BatchDownloadItem ==
    /\ app_pc = "batch_loop"
    /\ idx <= ZipLen(videos, custom_titles.items)
    /\ \E env \in EnvOutcomes :
          LET filename == FileName(videos[idx], custom_titles.items[idx])
              ret      == DownloadAudio(entries, filename, env)
          IN  /\ downloaded_files' = KeepDownloaded(downloaded_files,
                                                    ReturnedPath(ret))
              /\ idx' = AfterItem(idx, ret.value)
              /\ entries' = ret.exists
              /\ fn_in' = [url |-> videos[idx].url, filename |-> filename,
                           exists |-> entries, env |-> env]
              /\ fn_out' = ret
    /\ attempted' = Append(attempted, videos[idx].url)
    /\ UNCHANGED <<trackerVars, workerVars, callerVars, calls, app_pc, videos,
                   naming_method, custom_prefix, download_method, output_dir,
                   custom_titles, successful_videos, failed_videos, summary>>

\* Line 156.
BatchReturn ==
    /\ app_pc = "batch_loop"
    /\ idx > ZipLen(videos, custom_titles.items)
    /\ app_pc' = "batch_returned"
    /\ UNCHANGED <<trackerVars, workerVars, callerVars, fsVars, fnVars,
                   downloaded_files,
                   videos, naming_method, custom_prefix, download_method,
                   output_dir, custom_titles, idx, attempted,
                   successful_videos, failed_videos, summary>>

\* A call batch_download(videos, custom_titles) with zero or more videos and
\* either no titles (None) or one title per video, as _generate_custom_titles
\* makes them for one of the naming methods.
InitBatchDownload ==
    /\ TrackerInit(0)
    /\ WorkersInit
    /\ CallerInit
    /\ app_pc = "batch_call"
    /\ videos \in {vs \in Selections \cup {<<>>} : \A i \in DOMAIN vs : vs[i].url = i}
    /\ naming_method \in NAMING_OPTIONS \cup {None}
    /\ custom_prefix = None
    /\ download_method = None
    /\ output_dir = "dir"
    /\ custom_titles = GenerateCustomTitles(videos, naming_method, custom_prefix)
    /\ idx = 0
    /\ attempted = <<>>
    /\ successful_videos = <<>>
    /\ failed_videos = <<>>
    /\ summary = [status |-> "unset"]
    /\ downloaded_files = <<>>
    /\ FsIdle
    /\ FnIdle

InitBatch == InitApp \/ InitBatchDownload

NextBatch ==
    \/ NextApp
    \/ BatchBegin
    \/ BatchDownloadItem
    \/ BatchReturn

SpecBatch == InitBatch /\ [][NextBatch]_vars

\* ================================================================
\*  create_download_summary on its own (SpecSummary)
\* ================================================================

\* The VideoInfo objects the two argument lists are drawn from.
VideoPool == [url : 1..2, title : Titles]

InitSummary ==
    /\ TrackerInit(0)
    /\ WorkersInit
    /\ CallerInit
    /\ app_pc = "summarize"
    /\ videos = <<>>
    /\ naming_method = None
    /\ custom_prefix = None
    /\ download_method = None
    /\ output_dir = ""
    /\ custom_titles = [none |-> TRUE, items |-> <<>>]
    /\ idx = 0
    /\ attempted = <<>>
    /\ successful_videos \in SeqsUpTo(VideoPool, MaxList)
    /\ failed_videos \in SeqsUpTo(VideoPool, MaxList)
    /\ summary = [status |-> "unset"]
    /\ downloaded_files = <<>>
    /\ FsIdle
    /\ FnIdle

\* One call create_download_summary(successful_videos, failed_videos).
SummarizeCall ==
    /\ app_pc = "summarize"
    /\ summary' = CreateDownloadSummary(successful_videos, failed_videos)
    /\ app_pc' = "returned"
    /\ UNCHANGED <<trackerVars, workerVars, callerVars, fsVars, fnVars,
                   downloaded_files,
                   videos, naming_method, custom_prefix, download_method,
                   output_dir, custom_titles, idx, attempted,
                   successful_videos, failed_videos>>

NextSummary == SummarizeCall

SpecSummary == InitSummary /\ [][NextSummary]_vars

\* ================================================================
\*  Single calls of the FileHelper and naming functions
\* ================================================================

\* The application's data when only one function call is modelled.
AppDataIdle ==
    /\ videos = <<>>
    /\ naming_method = None
    /\ custom_prefix = None
    /\ download_method = None
    /\ output_dir = ""
    /\ custom_titles = [none |-> TRUE, items |-> <<>>]
    /\ idx = 0
    /\ attempted = <<>>
    /\ successful_videos = <<>>
    /\ failed_videos = <<>>
    /\ summary = [status |-> "unset"]
    /\ downloaded_files = <<>>

appData == <<videos, naming_method, custom_prefix, download_method, output_dir,
             custom_titles, idx, attempted, successful_videos, failed_videos,
             summary, downloaded_files>>

\* ---- sanitize_filename (SpecSanitize)

\* Longest text handed to sanitize_filename.
MaxText == 4
\* The characters of those texts: a letter, the underscore, the period, the
\* space, two ASCII characters outside the class of line 33 (one of them
\* whitespace), an accented letter and a character without ASCII form.
SanitizeAlphabet == {"a", "_", ".", " ", "/", "TAB", "e_acute", "CJK"}
\* The values of max_length: nothing kept, a cut inside the text, the default.
MaxLengths == {0, 2, DefaultMaxLength}

InitSanitize ==
    /\ TrackerInit(0)
    /\ WorkersInit
    /\ CallerInit
    /\ AppDataIdle
    /\ FsIdle
    /\ app_pc = "sanitize_call"
    /\ fn_in \in [text : SeqsUpTo(SanitizeAlphabet, MaxText),
                  max_length : MaxLengths]
    /\ fn_out = [none |-> TRUE]

\* One call sanitize_filename(text, max_length).
SanitizeCall ==
    /\ app_pc = "sanitize_call"
    /\ fn_out' = [none |-> FALSE,
                  text |-> SanitizeFilename(fn_in.text, fn_in.max_length)]
    /\ app_pc' = "sanitize_returned"
    /\ UNCHANGED <<trackerVars, workerVars, callerVars, appData, fsVars, fn_in>>

NextSanitize == SanitizeCall

SpecSanitize == InitSanitize /\ [][NextSanitize]_vars

\* ---- generate_unique_filename (SpecResolve)

\* Largest suffix of a name already in the directory.
MaxSuffix == 2
\* Calls of generate_unique_filename in one behaviour.
MaxCalls == 2

\* The names resolved: a plain one, one that reads like the first suffixed
\* candidate of the plain one, one that sanitizes to the plain one followed by
\* an underscore, and the empty name.
ResolveNames == {<<"a">>, <<"a", "_", "1">>, <<"a", "/">>, <<>>}

\* Entries the directory may hold before the first call.
SnapshotPool ==
    {n \o DotMp3 : n \in {<<"a">>, <<"a", "_">>, UnnamedFile}}
      \cup {Suffixed(n, k, DotMp3) : n \in {<<"a">>, <<"a", "_", "1">>},
                                     k \in 1..MaxSuffix}

InitResolve ==
    /\ TrackerInit(0)
    /\ WorkersInit
    /\ CallerInit
    /\ AppDataIdle
    /\ app_pc = "resolve"
    /\ entries \in SUBSET SnapshotPool
    /\ calls = <<>>
    /\ fn_in \in [filename : ResolveNames, extension : Extensions]
    /\ fn_out = [none |-> TRUE]

\* One call generate_unique_filename(base_path, filename, extension).
ResolveCall ==
    /\ app_pc = "resolve"
    /\ Len(calls) < MaxCalls
    /\ LET filepath == GenerateUniqueFilename(entries, fn_in.filename,
                                              fn_in.extension)
       IN  /\ calls' = Append(calls, [exists |-> entries,
                                     filename |-> fn_in.filename,
                                     extension |-> fn_in.extension,
                                     filepath |-> filepath,
                                     checks |-> ExistenceChecks(
                                                  entries, fn_in.filename,
                                                  fn_in.extension)])
           /\ fn_out' = [none |-> FALSE, path |-> filepath]
    /\ UNCHANGED <<trackerVars, workerVars, callerVars, appData, app_pc,
                   entries, fn_in>>

\* The caller writes a file at the path it was given (audio_downloader.py:
\* 103-107: the path is the Transcoder's output template).
CreateFile ==
    /\ app_pc = "resolve"
    /\ ~fn_out.none
    /\ fn_out.path \notin entries
    /\ entries' = entries \cup {fn_out.path}
    /\ UNCHANGED <<trackerVars, workerVars, callerVars, appData, app_pc,
                   calls, fnVars>>

NextResolve ==
    \/ ResolveCall
    \/ CreateFile

SpecResolve == InitResolve /\ [][NextResolve]_vars

\* ---- _generate_custom_titles (SpecNames)

\* The naming methods of a call: those of config.py and two values that are
\* none of them.
NamingArguments == NAMING_OPTIONS \cup {"Video Id", None}

InitNames ==
    /\ TrackerInit(0)
    /\ WorkersInit
    /\ CallerInit
    /\ FsIdle
    /\ FnIdle
    /\ app_pc = "names_call"
    /\ videos \in {vs \in Selections \cup {<<>>} : \A i \in DOMAIN vs : vs[i].url = i}
    /\ naming_method \in NamingArguments
    /\ custom_prefix \in {None, "", "mix"}
    /\ download_method = None
    /\ output_dir = ""
    /\ custom_titles = [none |-> TRUE, items |-> <<>>]
    /\ idx = 0
    /\ attempted = <<>>
    /\ successful_videos = <<>>
    /\ failed_videos = <<>>
    /\ summary = [status |-> "unset"]
    /\ downloaded_files = <<>>

\* One call _generate_custom_titles(videos, naming_method, custom_prefix). The
\* function has no raise statement: every call returns.
NamesCall ==
    /\ app_pc = "names_call"
    /\ custom_titles' = GenerateCustomTitles(videos, naming_method, custom_prefix)
    /\ app_pc' = "names_returned"
    /\ UNCHANGED <<trackerVars, workerVars, callerVars, fsVars, fnVars, videos,
                   naming_method, custom_prefix, download_method, output_dir,
                   idx, attempted, successful_videos, failed_videos, summary,
                   downloaded_files>>

NextNames == NamesCall

SpecNames == InitNames /\ [][NextNames]_vars

\* ---- batch_download with any list of titles (SpecBatchAny)

\* The names a caller may pass as custom_titles.
NamePool == {TitleName("a"), IndexedName("track", 1)}

\* A call batch_download(videos, custom_titles) with zero or more videos and a
\* list of zero or more names, whatever the two lengths.
InitBatchAny ==
    /\ TrackerInit(0)
    /\ WorkersInit
    /\ CallerInit
    /\ FsIdle
    /\ FnIdle
    /\ app_pc = "batch_call"
    /\ videos \in {vs \in Selections \cup {<<>>} : \A i \in DOMAIN vs : vs[i].url = i}
    /\ naming_method = None
    /\ custom_prefix = None
    /\ download_method = None
    /\ output_dir = "dir"
    /\ custom_titles \in [none : {FALSE}, items : SeqsUpTo(NamePool, MaxVideos)]
    /\ idx = 0
    /\ attempted = <<>>
    /\ successful_videos = <<>>
    /\ failed_videos = <<>>
    /\ summary = [status |-> "unset"]
    /\ downloaded_files = <<>>

NextBatchAny ==
    \/ BatchBegin
    \/ BatchDownloadItem
    \/ BatchReturn

SpecBatchAny == InitBatchAny /\ [][NextBatchAny]_vars

\* ---- batch_download with names that collide (SpecPlacement)

\* Names that sanitize to one base name ("/" and "?" both become "_"), and one
\* that does not.
PlacementNames == {TitleName("/"), TitleName("?"), TitleName("a")}

\* Entries the directory may hold before the run, the first candidates of
\* those names among them.
PlacementPool == {<<"_">> \o DotMp3, <<"_", "_", "1">> \o DotMp3,
                  <<"a">> \o DotMp3}

\* A call batch_download(videos, custom_titles) with one name per video, in a
\* directory that may hold files already.
InitPlacement ==
    /\ TrackerInit(0)
    /\ WorkersInit
    /\ CallerInit
    /\ FnIdle
    /\ entries \in SUBSET PlacementPool
    /\ calls = <<>>
    /\ app_pc = "batch_call"
    /\ videos \in {[i \in 1..k |-> [url |-> i, title |-> "a"]] : k \in 0..MaxVideos}
    /\ naming_method = None
    /\ custom_prefix = None
    /\ download_method = None
    /\ output_dir = "dir"
    /\ custom_titles \in {t \in [none : {FALSE},
                                 items : SeqsUpTo(PlacementNames, MaxVideos)] :
                             Len(t.items) = Len(videos)}
    /\ idx = 0
    /\ attempted = <<>>
    /\ successful_videos = <<>>
    /\ failed_videos = <<>>
    /\ summary = [status |-> "unset"]
    /\ downloaded_files = <<>>

NextPlacement ==
    \/ BatchBegin
    \/ BatchDownloadItem
    \/ BatchReturn

SpecPlacement == InitPlacement /\ [][NextPlacement]_vars

\* ================================================================
\*  Properties of the tracker (Spec)
\* ================================================================

\* Videos whose processing has ended: enqueued, no longer in the queue and held
\* by no thread.
InQueue == Cardinality({i \in DOMAIN download_queue : download_queue[i] # QNone})
Held == Cardinality({w \in Threads : wvideo[w] # 0})
Finished == nput - InQueue - Held

\* A download is in flight while a thread is inside download_func.
InFlight == {w \in Threads : wpc[w] = "call"}

\* C2: with a single worker thread, once the stop event is set no further
\* download starts: no step takes a thread into download_func while the stop
\* event is set.
C2_NoDownloadStartsAfterStop ==
    [][(nthreads = 1 /\ stop_event)
          => \A w \in Threads : wpc'[w] = "call" => wpc[w] = "call"]_vars

\* C3: outcomes are recorded in the order the videos were submitted: a video
\* enqueued earlier is displayed earlier.
C3_OutcomesInSubmissionOrder ==
    \A i, j \in DOMAIN log : i < j => log[i].video < log[j].video

\* C4: at most one download is in flight at any moment.
C4_AtMostOneInFlight == Cardinality(InFlight) <= 1

\* C5: with a single worker thread, every video it finishes adds exactly 1 to
\* the processed count and exactly 1 to one of the success and failure counts:
\* whenever no video is held, processed = success + failure = videos finished.
C5_CountersChangeOncePerItem ==
    (nthreads <= 1 /\ Held = 0)
        => /\ current_video = Finished
           /\ successful_downloads + failed_downloads = Finished

\* C6: the processed count never decreases, in any step.
C6_ProcessedMonotonic == [][current_video' >= current_video]_vars

\* ================================================================
\*  Properties of the application run (SpecApp, SpecBatch)
\* ================================================================

\* How many entries of the sequence q equal x.
Count(q, x) == Cardinality({i \in DOMAIN q : q[i] = x})

UrlsOf(vs) == [i \in DOMAIN vs |-> vs[i].url]

LoopOver == app_pc \in {"done", "crashed"}

C7_TrackerReflectsCompletedItems ==
    (app_pc = "loop" \/ LoopOver) =>
        /\ current_video = Len(attempted)
        /\ successful_downloads = Len(successful_videos)
        /\ failed_downloads = Len(failed_videos)

\* C10: a batch that ran always ends with a summary, never with an exception,
\* and the summary drops nothing: its total is the number of selected videos
\* and every title occurs in its two lists together as often as it occurs among
\* the selected videos.
C10_SummaryCoversEveryItem ==
    /\ app_pc # "crashed"
    /\ app_pc = "done" =>
          /\ summary.status = "ok"
          /\ summary.total_videos = Len(videos)
          /\ \A t \in Titles :
                Count(summary.successful_videos, t)
                  + Count(summary.failed_videos, t) = Count(TitlesOf(videos), t)

\* A batch of several videos, every one of which failed, and its summary.
C10_Witness ==
    /\ app_pc = "done"
    /\ Len(videos) >= 2
    /\ summary.status = "ok"
    /\ summary.successful_count = 0
    /\ summary.failed_count = Len(videos)

\* ================================================================
\*  Properties of create_download_summary (SpecSummary)
\* ================================================================

\* C8: with two empty lists the call returns a summary with total 0 and rate 0;
\* it does not raise.
C8_EmptySummaryIsZero ==
    (app_pc = "returned" /\ successful_videos = <<>> /\ failed_videos = <<>>) =>
        /\ summary.status = "ok"
        /\ summary.total_videos = 0
        /\ summary.success_rate.num = 0

\* C9: with at least one element in total the call returns
\* total = |s| + |f|, the two counts, and the rate 100 * |s| / (|s| + |f|),
\* which lies between 0 and 100.
C9_SummaryCountsAndRate ==
    (app_pc = "returned" /\ Len(successful_videos) + Len(failed_videos) >= 1) =>
        LET ns == Len(successful_videos)
            nf == Len(failed_videos)
            r  == summary.success_rate
        IN  /\ summary.status = "ok"
            /\ summary.total_videos = ns + nf
            /\ summary.successful_count = ns
            /\ summary.failed_count = nf
            /\ r.den > 0
            /\ r.num * (ns + nf) = 100 * ns * r.den
            /\ 0 <= r.num /\ r.num <= 100 * r.den

\* Two successes and one failure: total 3 and the rate 200/3.
C9_Witness ==
    /\ app_pc = "returned"
    /\ Len(successful_videos) = 2
    /\ Len(failed_videos) = 1
    /\ summary.status = "ok"
    /\ summary.total_videos = 3
    /\ summary.success_rate.num * 3 = 200 * summary.success_rate.den

\* ================================================================
\*  Properties of sanitize_filename (SpecSanitize)
\* ================================================================

\* The safe set: letters, digits, hyphen, underscore, period and space.
SafeSet == Letters \cup Digits \cup {"-", "_", ".", " "}

\* Characters of which nothing is left: without ASCII form, or a period or a
\* space, which are stripped when nothing else surrounds them.
Vanishing == {"CJK", ".", " "}

Occurrences(text, cs) == Cardinality({i \in DOMAIN text : text[i] \in cs})

\* C19: for every input text, the empty one and one of disallowed characters
\* only included, sanitize_filename returns a non-empty text all of whose
\* characters are in the safe set; when nothing is left of the input (or
\* max_length keeps nothing) it returns the literal unnamed_file.
C19_SanitizeIsSafeAndNonEmpty ==
    app_pc = "sanitize_returned" =>
        /\ fn_out.text # <<>>
        /\ \A i \in DOMAIN fn_out.text : fn_out.text[i] \in SafeSet
        /\ (fn_in.max_length = 0
            \/ \A i \in DOMAIN fn_in.text : fn_in.text[i] \in Vanishing)
           => fn_out.text = UnnamedFile

C19_Witness ==
    /\ app_pc = "sanitize_returned"
    /\ fn_in.text = <<".", "CJK", " ">>
    /\ fn_in.max_length = DefaultMaxLength
    /\ fn_out.text = UnnamedFile

\* k copies of the underscore.
Underscores(k) == [i \in 1..k |-> "_"]

\* The ASCII characters of the inputs that are outside the class of line 33.
DisallowedAscii == {"/", "TAB"}

\* A letter, then two or more disallowed ASCII characters, then a letter.
IsRunBetweenLetters(text) ==
    /\ Len(text) >= 4
    /\ text[1] = "a"
    /\ text[Len(text)] = "a"
    /\ \A i \in 2..(Len(text) - 1) : text[i] \in DisallowedAscii

Candidate(base, k, extension) ==
    IF k = 0 THEN base \o extension
    ELSE base \o <<"_">> \o Str(k) \o extension

\* The base name the candidates of a call are built on.
BaseOf(c) == SanitizeFilename(c.filename, DefaultMaxLength)

IsFree(c, k) == Candidate(BaseOf(c), k, c.extension) \notin c.exists

\* C11: generate_unique_filename returns a path at which nothing exists in the
\* snapshot it was called on; the path depends on the snapshot, the base name
\* and the extension only; it is the un-suffixed candidate when that one is
\* free, and otherwise the candidate with the smallest N >= 1 that is free.
C11_ResolveReturnsFirstFreeCandidate ==
    /\ \A i \in DOMAIN calls :
          LET c == calls[i]
          IN  /\ c.filepath \notin c.exists
              /\ IsFree(c, 0) => c.filepath = Candidate(BaseOf(c), 0, c.extension)
              /\ ~IsFree(c, 0) =>
                    \E n \in 1..(Cardinality(c.exists) + 1) :
                       /\ IsFree(c, n)
                       /\ \A m \in 1..(n - 1) : ~IsFree(c, m)
                       /\ c.filepath = Candidate(BaseOf(c), n, c.extension)
    /\ \A i, j \in DOMAIN calls :
          (/\ calls[i].exists = calls[j].exists
           /\ calls[i].filename = calls[j].filename
           /\ calls[i].extension = calls[j].extension)
             => calls[i].filepath = calls[j].filepath

C11_Witness ==
    /\ Len(calls) = 2
    /\ calls[1].exists = calls[2].exists
    /\ calls[1].filename = <<"a">>
    /\ ~IsFree(calls[1], 0)
    /\ ~IsFree(calls[1], 1)
    /\ calls[2].filepath = Candidate(<<"a">>, 2, calls[2].extension)

\* Two calls in succession for one base name in a directory that held neither
\* the plain candidate nor the first suffixed one.
TwoCallsInFreshDirectory ==
    /\ Len(calls) = 2
    /\ IsFree(calls[1], 0)
    /\ IsFree(calls[1], 1)

\* C12 as claimed: the first call yields name.ext and the second name_1.ext.
C12_SecondCallGetsSuffixOne ==
    TwoCallsInFreshDirectory =>
        /\ calls[1].filepath = Candidate(BaseOf(calls[1]), 0, calls[1].extension)
        /\ calls[2].filepath = Candidate(BaseOf(calls[2]), 1, calls[2].extension)

\* C12, amended: the first call yields name.ext; the second yields name_1.ext
\* when a file was written at name.ext between the two calls, and name.ext
\* again when none was.
C12_SecondCallSuffixedOnceFileExists ==
    TwoCallsInFreshDirectory =>
        /\ calls[1].filepath = Candidate(BaseOf(calls[1]), 0, calls[1].extension)
        /\ calls[2].filepath =
              IF calls[1].filepath \in calls[2].exists
                THEN Candidate(BaseOf(calls[2]), 1, calls[2].extension)
                ELSE Candidate(BaseOf(calls[2]), 0, calls[2].extension)

C12_Witness ==
    /\ TwoCallsInFreshDirectory
    /\ calls[1].filepath = <<"a">> \o DotMp3
    /\ calls[1].filepath \in calls[2].exists
    /\ calls[2].filepath = <<"a", "_", "1">> \o DotMp3

\* ================================================================
\*  Properties of _generate_custom_titles (SpecNames)
\* ================================================================

\* The text the claim gives item i under a naming method.
ExpectedName(method, prefix, title, i) ==
    CASE method = "Original Video Titles" -> <<title>>
      [] method = "Numbered Sequence" -> <<"t", "r", "a", "c", "k", "_">> \o Str(i)
      [] method = "Custom Prefix" ->
           (IF prefix \in {None, ""} THEN <<"a", "u", "d", "i", "o">>
            ELSE <<"m", "i", "x">>) \o <<"_">> \o Str(i)

C14_UnrecognizedMethodFails ==
    app_pc = "names_returned" => naming_method \in NAMING_OPTIONS

\* ================================================================
\*  Properties of batch_download and download_audio
\* ================================================================

\* C15 as claimed: when the names are not as many as the videos the batch fails
\* as a whole before any item is processed. Past lines 139-143 the two lengths
\* differ exactly when a non-empty list shorter than the videos was passed.
C15_MismatchedListsFailWhole ==
    (/\ app_pc \in {"batch_loop", "batch_returned"}
     /\ Len(custom_titles.items) # Len(videos))
        => /\ attempted = <<>>
           /\ app_pc # "batch_returned"

\* A download_audio call was made; fn_in and fn_out are those of the last one.
Called == attempted # <<>>

\* C16: download_audio returns the path only when ydl.download returned and a
\* file exists at the very path that was resolved, a path that was free before
\* the call; when ydl.download returned and no file is there, it returns None.
C16_SuccessOnlyIfFileAtResolvedPath ==
    Called =>
        /\ fn_out.value # None =>
              /\ fn_out.invoked
              /\ fn_in.env.transcode \in {"ok", "nofile"}
              /\ fn_out.filepath \in entries
              /\ fn_out.filepath \notin fn_in.exists
        /\ fn_in.env.transcode = "nofile" => fn_out.value = None

C16_Witness ==
    /\ Called
    /\ fn_in.env.transcode = "nofile"
    /\ fn_out.invoked
    /\ fn_out.filepath \notin entries
    /\ fn_out.value = None

\* A fault of directory creation, of path resolution or of the Transcoder.
IsFault(env) ==
    \/ env.mkdir # "ok"
    \/ env.resolve = "raises"
    \/ env.transcode \in {"error", "error_file"}

\* C17 as claimed: download_audio lets no exception out, and every fault of
\* directory creation, path resolution or the Transcoder ends in the failure
\* result.
C17_EveryFaultBecomesFailure ==
    Called =>
        /\ fn_out.value \in {"filepath", None}
        /\ IsFault(fn_in.env) => fn_out.value = None

\* C18 as claimed: when the directory could not be created the item fails and
\* the Transcoder is not invoked for it.
C18_FailedMkdirFailsItem ==
    (Called /\ fn_in.env.mkdir # "ok") =>
        /\ fn_out.value = None
        /\ ~fn_out.invoked

\* ================================================================
\*  Liveness of the tracker (SpecWorker, SpecFair)
\* ================================================================

\* The outcome of video v was displayed by _update_progress.
Processed(v) == \E i \in DOMAIN log : log[i].video = v

\* C21 as claimed: once a worker is started, and with no stop signalled by the
\* caller, every video enqueued, before or after start_download, is eventually
\* processed, and no video is processed twice. The tracker is one built for at
\* least one video, so that _update_progress does not raise, and behaviours
\* with a second start_download are left out of the first part.
C21_EveryEnqueuedItemProcessed ==
    /\ \A v \in 1..MaxTasks :
          (nthreads > 0 /\ total_videos > 0 /\ nput >= v)
             ~> (Processed(v) \/ nthreads > 1)
    /\ [](\A v \in 1..MaxTasks :
             Cardinality({i \in DOMAIN log : log[i].video = v}) <= 1)

\* C22 as claimed: a call of finalize_download made after a worker was started
\* eventually returns.
C22_FinalizeReturns == (fpc = "queue_join" /\ nthreads > 0) ~> (fpc = "done")

\* C24: the loop of generate_unique_filename ends on every directory that
\* holds finitely many entries and does not change during the call: with k
\* entries it asks os.path.exists at most k + 1 times and the path it returns
\* carries no suffix or a suffix of at most k.
C24_SuffixLoopBounded ==
    \A i \in DOMAIN calls :
       LET c == calls[i]
           k == Cardinality(c.exists)
       IN  /\ c.checks <= k + 1
           /\ \E n \in 0..k : c.filepath = Candidate(BaseOf(c), n, c.extension)

C24_Witness ==
    /\ calls # <<>>
    /\ calls[1].exists = {<<"a">> \o DotMp3, <<"a", "_", "1">> \o DotMp3}
    /\ calls[1].checks = 3
    /\ calls[1].filepath = <<"a", "_", "2">> \o DotMp3

\* C23: in one batch run on one directory, the path handed to the Transcoder
\* never names an entry that existed when it was resolved, and the paths of
\* the items that succeeded are entries of the directory and differ from one
\* another, also for names that sanitize to the same base name.
C23_CollisionSafePlacement ==
    /\ (Called /\ fn_out.invoked) => fn_out.filepath \notin fn_in.exists
    /\ \A i \in DOMAIN downloaded_files : downloaded_files[i] \in entries
    /\ \A i, j \in DOMAIN downloaded_files :
          i # j => downloaded_files[i] # downloaded_files[j]

C23_Witness ==
    /\ app_pc = "batch_returned"
    /\ Len(videos) >= 2
    /\ custom_titles.items[1] = TitleName("/")
    /\ custom_titles.items[2] = TitleName("?")
    /\ Len(downloaded_files) >= 2
    /\ downloaded_files[1] = <<"_">> \o DotMp3
    /\ downloaded_files[2] = <<"_", "_", "1">> \o DotMp3

====
